---- MODULE Spec2Model ----
(***************************************************************************)
(* Model of the TFD500 data logger driver (src/src/tfd500.py): the serial  *)
(* exchange Tfd500.xfer, the configuration decoder, the block stream       *)
(* Tfd500.__iter__ and the interval setter.                                *)
(*                                                                         *)
(* Representation.  A byte string is a sequence of integers 0..255; a text *)
(* string is a sequence of one-character strings.  A datetime is the       *)
(* number of seconds since 1970-01-01 00:00:00; a timedelta is a number of *)
(* seconds.  A temperature value / 10.0 is kept as the number of tenths of *)
(* a degree (the float is exactly value tenths).                           *)
(***************************************************************************)
EXTENDS Integers, Sequences, FiniteSets, TLC

(* ------------------------------ bounds --------------------------------- *)

\* Largest number of recorded points the modelled logger reports.
MaxCount == 130

\* The consumer of a stream asks for at most this many batches in one pass.
MaxBlock == 3

\* Connections left open by failed calls that may stay open at one time.
MaxLeaked == 1

\* Number of recorded points of the logger of the long pass, and the number
\* of blocks that pass reads at most.
LongCount == 850001

MaxRounds == 10001

(* ------------------------- program constants --------------------------- *)

\* Number of payload bytes requested for a data block (xfer("F", 256, ...)).
BlockSize == 256

\* Number of payload bytes requested for the 'd' and 'o' replies.
TextSize == 24

\* Number of 16 bit values unpacked from a temperature-only block (">128h").
TempValues == 128

(* ------------------------------ text ----------------------------------- *)

Digits == <<"0", "1", "2", "3", "4", "5", "6", "7", "8", "9">>

\* The ASCII characters the driver and the logger exchange.
Ascii ==
    [c \in {"0", "1", "2", "3", "4", "5", "6", "7", "8", "9", " ", ".", ":",
            "C", "F", "I", "T", "a", "d", "o", "?"} |->
        CASE c = "0" -> 48 [] c = "1" -> 49 [] c = "2" -> 50 [] c = "3" -> 51
          [] c = "4" -> 52 [] c = "5" -> 53 [] c = "6" -> 54 [] c = "7" -> 55
          [] c = "8" -> 56 [] c = "9" -> 57 [] c = " " -> 32 [] c = "." -> 46
          [] c = ":" -> 58 [] c = "C" -> 67 [] c = "F" -> 70 [] c = "I" -> 73
          [] c = "T" -> 84 [] c = "a" -> 97 [] c = "d" -> 100 [] c = "o" -> 111
          [] c = "?" -> 63]

\* str.encode("utf-8") on ASCII text.
Encode(s) == [i \in 1..Len(s) |-> Ascii[s[i]]]

\* bytes.decode("utf-8") succeeds on these bytes (all of them ASCII).
CanDecode(b) == \A i \in 1..Len(b) : \E c \in DOMAIN Ascii : Ascii[c] = b[i]

\* bytes.decode("utf-8").
Decode(b) == [i \in 1..Len(b) |-> CHOOSE c \in DOMAIN Ascii : Ascii[c] = b[i]]

IsDigit(c) == \E i \in 1..10 : Digits[i] = c

DigitVal(c) == (CHOOSE i \in 1..10 : Digits[i] = c) - 1

\* int(s) succeeds: a non-empty run of decimal digits.
IsInt(s) == Len(s) > 0 /\ \A i \in 1..Len(s) : IsDigit(s[i])

RECURSIVE IntOf(_)
\* int(s) for a run of decimal digits.
IntOf(s) ==
    IF Len(s) = 0 THEN 0
    ELSE 10 * IntOf(SubSeq(s, 1, Len(s) - 1)) + DigitVal(s[Len(s)])

RECURSIVE SplitFrom(_, _, _, _)
SplitFrom(s, i, cur, out) ==
    LET flushed == IF cur = <<>> THEN out ELSE Append(out, cur) IN
    IF i > Len(s) THEN flushed
    ELSE IF s[i] = " " THEN SplitFrom(s, i + 1, <<>>, flushed)
    ELSE SplitFrom(s, i + 1, Append(cur, s[i]), out)

\* str.split(): the maximal runs of non-blank characters, in order.
Split(s) == SplitFrom(s, 1, <<>>, <<>>)

\* " ".join([a, b])
Join(a, b) == a \o <<" ">> \o b

RECURSIVE DecDigits(_)
DecDigits(n) ==
    IF n < 10 THEN <<Digits[n + 1]>>
    ELSE Append(DecDigits(n \div 10), Digits[(n % 10) + 1])

RECURSIVE ZeroPad(_, _)
ZeroPad(s, width) == IF Len(s) >= width THEN s ELSE ZeroPad(<<"0">> \o s, width)

\* "%04d" % block
Fmt04d(block) == ZeroPad(DecDigits(block), 4)

(* ---------------------------- datetime --------------------------------- *)

IsLeap(y) == (y % 4 = 0 /\ y % 100 # 0) \/ y % 400 = 0

DaysInMonth(y, m) ==
    IF m = 2 THEN (IF IsLeap(y) THEN 29 ELSE 28)
    ELSE IF m \in {4, 6, 9, 11} THEN 30 ELSE 31

RECURSIVE DaysBeforeMonth(_, _)
DaysBeforeMonth(y, m) ==
    IF m = 1 THEN 0 ELSE DaysBeforeMonth(y, m - 1) + DaysInMonth(y, m - 1)

\* Days from 1970-01-01 to the first of January of year y (y >= 1969).
DaysBeforeYear(y) ==
    LET p == y - 1 IN
    (365 * p + p \div 4 - p \div 100 + p \div 400)
      - (365 * 1969 + 1969 \div 4 - 1969 \div 100 + 1969 \div 400)

\* The two-digit fields of "dd.mm.yy HH:MM:SS" as numbers.
TimeFields(s) ==
    [day    |-> IntOf(SubSeq(s, 1, 2)),   month  |-> IntOf(SubSeq(s, 4, 5)),
     year   |-> IntOf(SubSeq(s, 7, 8)),   hour   |-> IntOf(SubSeq(s, 10, 11)),
     minute |-> IntOf(SubSeq(s, 13, 14)), second |-> IntOf(SubSeq(s, 16, 17))]

\* %y: 69..99 are 1969..1999, 00..68 are 2000..2068.
FullYear(yy) == IF yy >= 69 THEN 1900 + yy ELSE 2000 + yy

\* datetime.strptime(s, "%d.%m.%y %H:%M:%S") accepts s.  The logger writes
\* every field with two digits, the only form modelled.
CanStrptime(s) ==
    /\ Len(s) = 17
    /\ \A i \in {1, 2, 4, 5, 7, 8, 10, 11, 13, 14, 16, 17} : IsDigit(s[i])
    /\ s[3] = "." /\ s[6] = "." /\ s[9] = " " /\ s[12] = ":" /\ s[15] = ":"
    /\ LET f == TimeFields(s) IN
         /\ f.month \in 1..12
         /\ f.day \in 1..DaysInMonth(FullYear(f.year), f.month)
         /\ f.hour < 24 /\ f.minute < 60 /\ f.second < 60

\* datetime.strptime(s, "%d.%m.%y %H:%M:%S"), in seconds since 1970-01-01.
Strptime(s) ==
    LET f == TimeFields(s)
        y == FullYear(f.year)
        days == DaysBeforeYear(y) + DaysBeforeMonth(y, f.month) + f.day - 1
    IN  ((days * 24 + f.hour) * 60 + f.minute) * 60 + f.second

\* A datetime as its fields, the form the command line's clock readings
\* take.  "%02d" is strftime's %d with a flag and a width: two digits.
Two(n) == ZeroPad(DecDigits(n), 2)

\* value.strftime("%02d.%02m.%02y %02H:%02M:%02S")
Strftime(t) ==
    Two(t.day) \o <<".">> \o Two(t.month) \o <<".">> \o Two(t.year % 100)
      \o <<" ">> \o Two(t.hour) \o <<":">> \o Two(t.minute) \o <<":">>
      \o Two(t.second)

(* ------------------------- record decoder ------------------------------ *)

\* struct "h": a big-endian signed 16 bit value.
S16(hi, lo) == LET v == hi * 256 + lo IN IF v >= 32768 THEN v - 65536 ELSE v

\* struct "b": a signed 8 bit value.
S8(b) == IF b >= 128 THEN b - 256 ELSE b

\* struct.unpack(">128h", record) succeeds only on exactly 256 bytes.
CanUnpackTemp(record) == Len(record) = 2 * TempValues

\* struct.unpack(">128h", record)
UnpackTemp(record) ==
    [i \in 1..TempValues |-> S16(record[2 * i - 1], record[2 * i])]

\* usable = len(record) // 3
Usable(record) == Len(record) \div 3

\* struct.unpack(">" + "hb" * usable, record[:3*usable]): the flat tuple
\* (h, b, h, b, ...).
UnpackHum(record) ==
    LET part == SubSeq(record, 1, 3 * Usable(record)) IN
    [j \in 1..(2 * Usable(record)) |->
        LET g == 3 * ((j - 1) \div 2) IN
        IF j % 2 = 1 THEN S16(part[g + 1], part[g + 2]) ELSE S8(part[g + 3])]

\* zip(values[0::2], values[1::2])
ZipPairs(values) ==
    [k \in 1..(Len(values) \div 2) |-> <<values[2 * k - 1], values[2 * k]>>]

RECURSIVE HumLoopOneMore(_, _, _, _, _)
\* A humidity loop that stops one sample late.
HumLoopOneMore(pairs, i, st, number_of_points, delta) ==
    IF i > Len(pairs) \/ st.count > number_of_points THEN st
    ELSE HumLoopOneMore(pairs, i + 1,
                 [data      |-> Append(st.data,
                                       <<st.timestamp, pairs[i][1], pairs[i][2]>>),
                  timestamp |-> st.timestamp + delta,
                  count     |-> st.count + 1],
                 number_of_points, delta)

RECURSIVE HumLoopInBlock(_, _, _, _, _)
\* A humidity loop that steps the timestamp between the values of a block
\* but not after the last one.
HumLoopInBlock(pairs, i, st, number_of_points, delta) ==
    IF i > Len(pairs) \/ st.count >= number_of_points THEN st
    ELSE HumLoopInBlock(pairs, i + 1,
                 [data      |-> Append(st.data,
                                       <<st.timestamp, pairs[i][1], pairs[i][2]>>),
                  timestamp |-> IF i < Len(pairs) THEN st.timestamp + delta
                                ELSE st.timestamp,
                  count     |-> st.count + 1],
                 number_of_points, delta)

RECURSIVE HumLoop(_, _, _, _, _)
\* for value in zip(...): the loop of the humidity branch, from its i-th
\* element on; st holds the locals data, timestamp and count.
HumLoop(pairs, i, st, number_of_points, delta) ==
    IF i > Len(pairs) \/ st.count >= number_of_points THEN st
    ELSE HumLoop(pairs, i + 1,
                 [data      |-> Append(st.data,
                                       <<st.timestamp, pairs[i][1], pairs[i][2]>>),
                  timestamp |-> st.timestamp + delta,
                  count     |-> st.count + 1],
                 number_of_points, delta)

RECURSIVE TempLoopOneMore(_, _, _, _, _)
\* A temperature loop that stops one sample late.
TempLoopOneMore(values, i, st, number_of_points, delta) ==
    IF i > Len(values) \/ st.count > number_of_points THEN st
    ELSE TempLoopOneMore(values, i + 1,
                  [data      |-> Append(st.data, <<st.timestamp, values[i]>>),
                   timestamp |-> st.timestamp + delta,
                   count     |-> st.count + 1],
                  number_of_points, delta)

RECURSIVE TempLoop(_, _, _, _, _)
\* for value in values: the loop of the temperature-only branch.
TempLoop(values, i, st, number_of_points, delta) ==
    IF i > Len(values) \/ st.count >= number_of_points THEN st
    ELSE TempLoop(values, i + 1,
                  [data      |-> Append(st.data, <<st.timestamp, values[i]>>),
                   timestamp |-> st.timestamp + delta,
                   count     |-> st.count + 1],
                  number_of_points, delta)

\* The body of the while loop after the block has been read: the new values
\* of data, timestamp and count.
DecodeBlock(record, has_humidity, timestamp, count, number_of_points, delta) ==
    LET st == [data |-> <<>>, timestamp |-> timestamp, count |-> count] IN
    IF has_humidity
    THEN HumLoop(ZipPairs(UnpackHum(record)), 1, st, number_of_points, delta)
    ELSE TempLoop(UnpackTemp(record), 1, st, number_of_points, delta)

(* --------------------------- the logger -------------------------------- *)

\* Recording start times the modelled logger may hold.
StartTexts ==
    {<<"2", "0", ".", "0", "7", ".", "1", "5", " ",
       "1", "1", ":", "4", "4", ":", "5", "6">>,
     <<"3", "1", ".", "1", "2", ".", "9", "9", " ",
       "2", "3", ":", "5", "9", ":", "3", "0">>}

\* A start field as a disturbed line delivers it: a blank for the first
\* colon, so that the 'd' reply has four fields.
GarbledStart ==
    <<"2", "0", ".", "0", "7", ".", "1", "5", " ",
      "1", "1", " ", "4", "4", ":", "5", "6">>

\* The logger's clock (the trailing field of the 'o' reply).
ClockText ==
    <<"2", "0", ".", "0", "7", ".", "1", "5", " ",
      "1", "2", ":", "3", "4", ":", "5", "6">>

\* Numbers of recorded points: around the block sizes of both modes.
Counts ==
    {n \in 0..MaxCount :
        n < 3 \/ n = 10 \/ n % 85 \in {0, 1, 84}
        \/ n % TempValues \in {0, 1, 2, 127}}

\* The states of the logger: number of points, start of the recording,
\* mode digit (C0/C1), interval code (I0/I1/I2) and the flash contents.
DevStates ==
    [count : Counts, start : StartTexts \cup {GarbledStart}, mode : {0, 1},
     ival : {0, 1, 2}, seed : {0, 1}]

\* The byte at an offset of a block of the logger's flash.
DevByte(seed, block, offset) ==
    IF seed = 0 THEN 0 ELSE (37 * block + 101 * offset + 255) % 256

\* Payload of the 'd' reply: "000010 20.07.15 11:44:56".
ReplyD(d) == Encode(ZeroPad(DecDigits(d.count), 6) \o <<" ">> \o d.start)

\* Payload of the 'o' reply: "C1 I2 T20.07.15 12:34:56".
ReplyO(d) ==
    Encode(<<"C", Digits[d.mode + 1], " ", "I", Digits[d.ival + 1], " ", "T">>
           \o ClockText)

\* Payload of the 'F' reply: the 256 bytes of the requested block.
ReplyF(d, parameters) ==
    LET block == IF IsInt(parameters) THEN IntOf(parameters) ELSE 0 IN
    [i \in 1..BlockSize |-> DevByte(d.seed, block, i - 1)]

\* The payload the logger sends after the echo of a command.
Reply(d, cmd, parameters) ==
    CASE cmd = <<"d">> -> ReplyD(d)
      [] cmd = <<"o">> -> ReplyO(d)
      [] cmd = <<"F">> -> ReplyF(d, parameters)
      [] OTHER -> <<>>

\* The one byte sent after the echo of 'a': "0" when the logger is idle,
\* "1" while it records.
StatusReplies == {Encode(<<"0">>), Encode(<<"1">>)}

\* The payloads the logger may send after the echo of a command.  Whether
\* it records is not part of its modelled state: 'a' is answered either way.
Replies(d, cmd, parameters) ==
    IF cmd = <<"a">> THEN StatusReplies ELSE {Reply(d, cmd, parameters)}

\* The logger after it has taken a command: 'I' sets the interval code.
Applied(d, cmd, parameters) ==
    IF cmd = <<"I">> /\ Len(parameters) = 1 /\ IsDigit(parameters[1])
       /\ DigitVal(parameters[1]) \in {0, 1, 2}
    THEN [d EXCEPT !.ival = DigitVal(parameters[1])]
    ELSE d

\* connection.read(1) for the echo: the command byte, another byte, or
\* nothing at all when the read times out.
Echoes(cmd) == {Encode(cmd), Encode(<<"?">>), <<>>}

\* connection.read(expected): all the bytes asked for, or fewer when the
\* read times out.
ReadLens(expected) == {expected} \cup {l \in {0, (2 * expected) \div 5} : l < expected}

(* ------------------------------ state ---------------------------------- *)

VARIABLES
    dev,        \* the logger at the other end of the serial line
    open,       \* number of serial connections that are open
    wire,       \* the bytes written to the line by the running operation
    exch,       \* the command of every exchange the running operation began
    op,         \* the running operation ("none", "iter", "interval",
                \* "set_clock", "dump")
    pc,         \* position of the running operation ("idle": none)
    err,        \* the exception that ended the operation ("none": none)
    arg,        \* the value handed to the interval setter
    cf,         \* configuration(): count and start of the 'd' reply
    config,     \* __iter__: the dictionary configuration() returned
    it,         \* __iter__: its locals
    xpc,        \* xfer: position of the call ("off": no call)
    x,          \* xfer: cmd, expected, parameters, raw, response, result
    xlog,       \* xfer: what the call has done to the connection, in order
    last,       \* the dictionary the previous stream pass worked with
    cli         \* tfd500_cli: arguments, locals and result of the command

vars == <<dev, open, wire, exch, op, pc, err, arg, cf, config, it, xpc, x,
          xlog, last, cli>>

NoX == [cmd |-> <<>>, expected |-> 0, parameters |-> <<>>, raw |-> FALSE,
        response |-> <<>>, result |-> <<>>]

NoCf == [count |-> <<>>, start |-> <<>>]

NoConfig == [count |-> 0, start |-> 0, humidity |-> FALSE, interval |-> 0]

\* No clock reading.
NoTime == [year |-> 0, month |-> 0, day |-> 0, hour |-> 0, minute |-> 0,
           second |-> 0]

\* The command line program at rest: no --value, nothing asked of the
\* logger, no dictionary, no output opened, no record written, no result.
NoCli == [given |-> FALSE, value |-> <<>>, now |-> NoTime,
          status |-> "unknown", reply |-> <<>>, config |-> NoConfig,
          output |-> "none", counter |-> 0, records |-> <<>>, rc |-> -1]

NoIt == [number_of_points |-> 0, timestamp |-> 0, has_humidity |-> FALSE,
         delta |-> 0, block |-> 0, count |-> 0, data |-> <<>>]

\* A table of the interval setter whose codes start at 1.
IntervalMappingFromOne ==
    [v \in {10, 60, 300} |->
        CASE v = 10 -> <<"1">> [] v = 60 -> <<"2">> [] v = 300 -> <<"3">>]

\* The table of the interval setter: mapping = {10: "0", 60: "1", 300: "2"}.
IntervalMapping == [v \in {10, 60, 300} |->
                      CASE v = 10 -> <<"0">> [] v = 60 -> <<"1">> [] v = 300 -> <<"2">>]

\* The table of configuration(): (10, 60, 5*60).
IntervalTable == <<10, 60, 5 * 60>>

\* Values a caller hands to the interval setter.
IntervalArgs == {10, 60, 300, 0, 30, 600}

\* The driver before any operation: Tfd500(device).
InitDriver ==
    /\ open = 0
    /\ wire = <<>>
    /\ exch = <<>>
    /\ op = "none"
    /\ pc = "idle"
    /\ err = "none"
    /\ arg = 0
    /\ cf = NoCf
    /\ config = NoConfig
    /\ it = NoIt
    /\ xpc = "off"
    /\ x = NoX
    /\ xlog = <<>>
    /\ last = NoConfig
    /\ cli = NoCli

Init == dev \in DevStates /\ InitDriver

(* ------------------------------- xfer ----------------------------------- *)

\* A caller enters xfer(cmd, expected, parameters, raw).
Call(cmd, expected, parameters, raw) ==
    /\ xpc' = "call"
    /\ x' = [NoX EXCEPT !.cmd = cmd, !.expected = expected,
                        !.parameters = parameters, !.raw = raw]
    /\ xlog' = <<>>

\* An exception leaves xfer and every caller above it: nothing in the driver
\* catches it.
Raise(e) ==
    /\ err' = e
    /\ pc' = "failed"

\* connection = serial.Serial(...)
XferOpen ==
    /\ xpc = "call"
    /\ xpc' = "opened"
    /\ open' = open + 1
    /\ exch' = Append(exch, x.cmd)
    /\ xlog' = Append(xlog, "open")
    /\ UNCHANGED <<dev, wire, pc, err, arg, cf, config, it, x>>
    /\ UNCHANGED <<op, last, cli>>

\* connection.write(cmd)
XferWriteCmd ==
    /\ xpc = "opened"
    /\ xpc' = "cmdsent"
    /\ wire' = wire \o Encode(x.cmd)
    /\ xlog' = Append(xlog, "write_cmd")
    /\ UNCHANGED <<dev, open, exch, pc, err, arg, cf, config, it, x>>
    /\ UNCHANGED <<op, last, cli>>

\* connection.write(parameters): parameters is never None here, an empty
\* parameter string writes no byte.
XferWriteParams ==
    /\ xpc = "cmdsent"
    /\ xpc' = "sent"
    /\ wire' = wire \o Encode(x.parameters)
    /\ xlog' = IF x.parameters = <<>> THEN xlog
               ELSE Append(xlog, "write_params")
    /\ UNCHANGED <<dev, open, exch, pc, err, arg, cf, config, it, x>>
    /\ UNCHANGED <<op, last, cli>>

\* response = connection.read(1); a logger that echoes the command has
\* taken it.
XferReadEcho ==
    /\ xpc = "sent"
    /\ \E e \in Echoes(x.cmd) :
         /\ x' = [x EXCEPT !.response = e]
         /\ dev' = IF e = Encode(x.cmd) THEN Applied(dev, x.cmd, x.parameters)
                   ELSE dev
    /\ xpc' = "echoed"
    /\ xlog' = Append(xlog, "read_echo")
    /\ UNCHANGED <<open, wire, exch, pc, err, arg, cf, config, it>>
    /\ UNCHANGED <<op, last, cli>>

\* A check of the echo that lets a timed-out read pass.
EchoOkOrSilent(response, cmd) == response = <<>> \/ response = Encode(cmd)

\* A check of the echo that only looks for one byte, whatever it is.
EchoOkAnyByte(response, cmd) == Len(response) = 1

\* assert response == cmd
EchoOk(response, cmd) == response = Encode(cmd)

XferAssert ==
    /\ xpc = "echoed"
    /\ xlog' = Append(xlog, "validate")
    /\ IF EchoOk(x.response, x.cmd)
       THEN /\ xpc' = "checked"
            /\ UNCHANGED <<pc, err>>
       ELSE /\ xpc' = "raised"
            /\ Raise("AssertionError")
    /\ UNCHANGED <<dev, open, wire, exch, arg, cf, config, it, x>>
    /\ UNCHANGED <<op, last, cli>>

\* result = connection.read(expected)
XferReadPayload ==
    /\ xpc = "checked"
    /\ \E reply \in Replies(dev, x.cmd, x.parameters),
          n \in ReadLens(x.expected) :
         x' = [x EXCEPT !.result = SubSeq(reply, 1, n)]
    /\ xpc' = "got"
    /\ xlog' = Append(xlog, "read_payload")
    /\ UNCHANGED <<dev, open, wire, exch, pc, err, arg, cf, config, it>>
    /\ UNCHANGED <<op, last, cli>>

\* connection.close()
XferClose ==
    /\ xpc = "got"
    /\ xpc' = "closed"
    /\ open' = open - 1
    /\ xlog' = Append(xlog, "close")
    /\ UNCHANGED <<dev, wire, exch, pc, err, arg, cf, config, it, x>>
    /\ UNCHANGED <<op, last, cli>>

\* if not raw: result = result.decode("utf-8"); return result
XferReturn ==
    /\ xpc = "closed"
    /\ IF x.raw
       THEN /\ xpc' = "returned"
            /\ UNCHANGED <<x, pc, err>>
       ELSE IF CanDecode(x.result)
       THEN /\ xpc' = "returned"
            /\ x' = [x EXCEPT !.result = Decode(x.result)]
            /\ UNCHANGED <<pc, err>>
       ELSE /\ xpc' = "raised"
            /\ Raise("UnicodeDecodeError")
            /\ UNCHANGED x
    /\ UNCHANGED <<dev, open, wire, exch, arg, cf, config, it, xlog>>
    /\ UNCHANGED <<op, last, cli>>

\* A write or a read on the connection fails (the line is unplugged): the
\* SerialException leaves xfer.
XferIOError ==
    /\ xpc \in {"opened", "cmdsent", "sent", "checked"}
    /\ xpc' = "raised"
    /\ Raise("SerialException")
    /\ UNCHANGED <<dev, open, wire, exch, arg, cf, config, it, x, xlog>>
    /\ UNCHANGED <<op, last, cli>>

(* -------------------------- configuration ------------------------------ *)

\* An unpacking of the 'd' reply that takes the first three fields of more.
CanUnpackDLenient(reply) == Len(Split(reply)) >= 3

\* count, startdate, starttime = self.xfer('d', 24).split() succeeds.
CanUnpackD(reply) == Len(Split(reply)) = 3

\* mode, interval, _date, _time = self.xfer("o", 24).split() succeeds.
CanUnpackO(reply) == Len(Split(reply)) = 4

\* The exception building the dictionary raises ("none": it is built), in
\* the order the four entries are evaluated.
ConfigError(count, start, mode, interval) ==
    IF ~IsInt(count) THEN "ValueError"
    ELSE IF ~CanStrptime(start) THEN "ValueError"
    ELSE IF Len(mode) < 2 THEN "IndexError"
    ELSE IF ~IsDigit(mode[2]) THEN "ValueError"
    ELSE IF Len(interval) < 2 THEN "IndexError"
    ELSE IF ~IsDigit(interval[2]) THEN "ValueError"
    ELSE IF DigitVal(interval[2]) >= Len(IntervalTable) THEN "IndexError"
    ELSE "none"

\* A dictionary whose humidity flag tests the mode digit with >= 0.
ConfigOfAnyMode(count, start, mode, interval) ==
    [count    |-> IntOf(count),
     start    |-> Strptime(start),
     humidity |-> DigitVal(mode[2]) >= 0,
     interval |-> IntervalTable[DigitVal(interval[2]) + 1]]

\* A dictionary whose interval is the first entry of the table.
ConfigOfFirstInterval(count, start, mode, interval) ==
    [count    |-> IntOf(count),
     start    |-> Strptime(start),
     humidity |-> DigitVal(mode[2]) > 0,
     interval |-> IntervalTable[1]]

\* The dictionary configuration() builds.
ConfigOf(count, start, mode, interval) ==
    [count    |-> IntOf(count),
     start    |-> Strptime(start),
     humidity |-> DigitVal(mode[2]) > 0,
     interval |-> IntervalTable[DigitVal(interval[2]) + 1]]

\* The locals of __iter__ before its loop.
IterLocals(c) ==
    [number_of_points |-> c.count, timestamp |-> c.start,
     has_humidity |-> c.humidity, delta |-> c.interval,
     block |-> 0, count |-> 0, data |-> <<>>]

\* The consumer asks the stream for its first batch: __iter__ begins with
\* configuration(), which begins with xfer('d', 24).
IterStart ==
    /\ pc = "idle"
    /\ op' = "iter"
    /\ pc' = "cfg_d"
    /\ Call(<<"d">>, TextSize, <<>>, FALSE)
    /\ UNCHANGED <<dev, open, wire, exch, err, arg, cf, config, it, last, cli>>

\* configuration() after xfer('d', 24) has returned.
CfgGotD ==
    /\ pc = "cfg_d" /\ xpc = "returned"
    /\ IF CanUnpackD(x.result)
       THEN LET f == Split(x.result) IN
            /\ cf' = [count |-> f[1], start |-> Join(f[2], f[3])]
            /\ pc' = "cfg_o"
            /\ Call(<<"o">>, TextSize, <<>>, FALSE)
            /\ UNCHANGED err
       ELSE /\ Raise("ValueError")
            /\ xpc' = "off"
            /\ UNCHANGED <<cf, x, xlog>>
    /\ UNCHANGED <<dev, open, wire, exch, arg, config, it>>
    /\ UNCHANGED <<op, last, cli>>

\* configuration() after xfer("o", 24) has returned, and the statements of
\* __iter__ up to its loop.
CfgGotO ==
    /\ pc = "cfg_o" /\ xpc = "returned"
    /\ xpc' = "off"
    /\ IF CanUnpackO(x.result)
       THEN LET f == Split(x.result)
                e == ConfigError(cf.count, cf.start, f[1], f[2])
            IN  IF e = "none"
                THEN /\ config' = ConfigOf(cf.count, cf.start, f[1], f[2])
                     /\ it' = IterLocals(config')
                     /\ pc' = "loop"
                     /\ UNCHANGED err
                ELSE /\ Raise(e)
                     /\ UNCHANGED <<config, it>>
       ELSE /\ Raise("ValueError")
            /\ UNCHANGED <<config, it>>
    /\ UNCHANGED <<dev, open, wire, exch, arg, cf, x, xlog>>
    /\ UNCHANGED <<op, last, cli>>

(* ---------------------------- __iter__ ---------------------------------- *)

\* A loop test that still holds when every point has been emitted.
MoreToReadInclusive(count, number_of_points) == count <= number_of_points

\* while count < number_of_points
MoreToRead(count, number_of_points) == count < number_of_points

\* The test of the while loop: another block is asked for, or the stream
\* ends.
IterLoop ==
    /\ pc = "loop"
    /\ IF MoreToRead(it.count, it.number_of_points)
       THEN /\ pc' = "block"
            /\ Call(<<"F">>, BlockSize, Fmt04d(it.block), TRUE)
       ELSE /\ pc' = "done"
            /\ UNCHANGED <<xpc, x, xlog>>
    /\ UNCHANGED <<dev, open, wire, exch, err, arg, cf, config, it>>
    /\ UNCHANGED <<op, last, cli>>

\* The block has been read: it is decoded and the batch is yielded.
IterDecode ==
    /\ pc = "block" /\ xpc = "returned"
    /\ xpc' = "off"
    /\ IF it.has_humidity \/ CanUnpackTemp(x.result)
       THEN LET st == DecodeBlock(x.result, it.has_humidity, it.timestamp,
                                  it.count, it.number_of_points, it.delta)
            IN  /\ it' = [it EXCEPT !.data = st.data,
                                    !.timestamp = st.timestamp,
                                    !.count = st.count,
                                    !.block = it.block + 1]
                /\ pc' = "yield"
                /\ UNCHANGED err
       ELSE /\ Raise("struct.error")
            /\ UNCHANGED it
    /\ UNCHANGED <<dev, open, wire, exch, arg, cf, config, x, xlog>>
    /\ UNCHANGED <<op, last, cli>>

\* The consumer asks for the next batch.
IterNext ==
    /\ op = "iter" /\ pc = "yield"
    /\ it.block < MaxBlock
    /\ pc' = "loop"
    /\ UNCHANGED <<dev, open, wire, exch, err, arg, cf, config, it, xpc, x, xlog>>
    /\ UNCHANGED <<op, last, cli>>

(* ------------------------- interval setter ------------------------------ *)

\* Tfd500.interval = value
SetInterval ==
    /\ pc = "idle"
    /\ op' = "interval"
    /\ \E value \in IntervalArgs :
         /\ arg' = value
         /\ IF value \in DOMAIN IntervalMapping
            THEN /\ pc' = "interval"
                 /\ Call(<<"I">>, 0, IntervalMapping[value], FALSE)
                 /\ UNCHANGED err
            ELSE /\ Raise("ValueError")
                 /\ UNCHANGED <<xpc, x, xlog>>
    /\ UNCHANGED <<dev, open, wire, exch, cf, config, it, last, cli>>

(* ----------------------------- the caller ------------------------------- *)

\* What every operation starts from.
Reset ==
    /\ op' = "none"
    /\ pc' = "idle"
    /\ err' = "none"
    /\ wire' = <<>>
    /\ exch' = <<>>
    /\ arg' = 0
    /\ cf' = NoCf
    /\ config' = NoConfig
    /\ it' = NoIt
    /\ xpc' = "off"
    /\ x' = NoX
    /\ xlog' = <<>>
    /\ cli' = NoCli

\* The operation has returned to its caller: the setter after its exchange,
\* the stream at its end, or a stream the consumer drops after a batch.
Return ==
    /\ \/ pc = "interval" /\ xpc = "returned"
       \/ op = "iter" /\ pc = "done"
       \/ op = "iter" /\ pc = "yield"
    /\ Reset
    /\ UNCHANGED <<dev, open, last>>

\* The caller has handled the exception.  A connection the failed call left
\* open is closed when its object is finalised, or stays open.
Recover ==
    /\ pc = "failed"
    /\ Reset
    /\ open' \in {0} \cup {n \in {open} : n <= MaxLeaked}
    /\ UNCHANGED <<dev, last>>

\* The logger records, or is set up, while no operation runs.
Record ==
    /\ pc = "idle"
    /\ dev' \in DevStates \ {dev}
    /\ UNCHANGED <<open, wire, exch, pc, err, arg, cf, config, it, xpc, x, xlog>>
    /\ UNCHANGED <<op, last, cli>>

Next ==
    \/ XferOpen \/ XferWriteCmd \/ XferWriteParams \/ XferReadEcho
    \/ XferAssert \/ XferReadPayload \/ XferClose \/ XferReturn \/ XferIOError
    \/ IterStart \/ CfgGotD \/ CfgGotO \/ IterLoop \/ IterDecode \/ IterNext
    \/ SetInterval \/ Return \/ Recover \/ Record

Spec == Init /\ [][Next]_vars

(* ---------------- a run that remembers the previous pass ---------------- *)

\* The stream pass ends (or is dropped) and the dictionary it worked with is
\* remembered.
ReturnNoting ==
    /\ \/ pc = "interval" /\ xpc = "returned"
       \/ op = "iter" /\ pc = "done"
       \/ op = "iter" /\ pc = "yield"
    /\ last' = IF op = "iter" THEN config ELSE last
    /\ Reset
    /\ UNCHANGED <<dev, open>>

\* The loggers of the runs that remember the previous pass.
PassDevStates ==
    {d \in DevStates : /\ d.count \in {2, 86} /\ d.ival \in {0, 2}
                        /\ d.seed = 1 /\ d.start \in StartTexts}

InitPasses == Init /\ dev \in PassDevStates

RecordPasses == Record /\ dev' \in PassDevStates

NextPasses ==
    \/ XferOpen \/ XferWriteCmd \/ XferWriteParams \/ XferReadEcho
    \/ XferAssert \/ XferReadPayload \/ XferClose \/ XferReturn \/ XferIOError
    \/ IterStart \/ CfgGotD \/ CfgGotO \/ IterLoop \/ IterDecode \/ IterNext
    \/ SetInterval \/ ReturnNoting \/ Recover \/ RecordPasses

SpecPasses == InitPasses /\ [][NextPasses]_vars

(* ------------------------ a long stream pass --------------------------- *)

\* One round of the while loop of __iter__ in one step, for a logger that
\* answers the exchange in full: the block is asked for, read, decoded and
\* yielded, and the consumer asks for the next batch.  Of the exchanges of
\* the pass, wire, exch and xlog keep this last one only.
IterRound ==
    /\ op = "iter" /\ pc = "loop"
    /\ MoreToRead(it.count, it.number_of_points)
    /\ it.block < MaxRounds
    /\ LET parameters == Fmt04d(it.block)
           record == ReplyF(dev, parameters)
           st == DecodeBlock(record, it.has_humidity, it.timestamp,
                             it.count, it.number_of_points, it.delta)
       IN  /\ x' = [cmd |-> <<"F">>, expected |-> BlockSize,
                    parameters |-> parameters, raw |-> TRUE,
                    response |-> Encode(<<"F">>), result |-> record]
           /\ wire' = Encode(<<"F">> \o parameters)
           /\ it' = [it EXCEPT !.data = st.data,
                               !.timestamp = st.timestamp,
                               !.count = st.count,
                               !.block = it.block + 1]
    /\ exch' = << <<"F">> >>
    /\ xlog' = <<"open", "write_cmd", "write_params", "read_echo", "validate",
                 "read_payload", "close">>
    /\ UNCHANGED <<dev, open, op, pc, err, arg, cf, config, xpc, last, cli>>

\* The end of the long pass.
IterEnd ==
    /\ op = "iter" /\ pc = "loop"
    /\ ~MoreToRead(it.count, it.number_of_points)
    /\ pc' = "done"
    /\ UNCHANGED <<dev, open, wire, exch, op, err, arg, cf, config, it, xpc,
                   x, xlog, last, cli>>

\* A logger in humidity mode that has recorded LongCount points.
LongDevStates ==
    {d \in [count : {LongCount}, start : StartTexts, mode : {1}, ival : {0},
             seed : {0}] : d.start[1] = "2"}

InitLong == dev \in LongDevStates /\ InitDriver

NextLong ==
    \/ XferOpen \/ XferWriteCmd \/ XferWriteParams \/ XferReadEcho
    \/ XferAssert \/ XferReadPayload \/ XferClose \/ XferReturn \/ XferIOError
    \/ IterStart \/ CfgGotD \/ CfgGotO \/ IterRound \/ IterEnd
    \/ Return \/ Recover

SpecLong == InitLong /\ [][NextLong]_vars

(* ------------------------ the command line ------------------------------ *)

\* Readings of datetime.datetime.now().
NowValues ==
    {[year |-> 2026, month |-> 11, day |-> 4, hour |-> 5, minute |-> 6,
      second |-> 7],
     [year |-> 2015, month |-> 7, day |-> 20, hour |-> 12, minute |-> 34,
      second |-> 56]}

\* Texts given as --value: one of them is the text of a clock reading.
ClockValues == {ClockText, <<"0", "1", ".", "0", "2", ".", "0", "3", " ",
                             "0", "4", ":", "0", "5", ":", "0", "6">>}

\* cmd_set_clock(logger, args): stamp is now() without --value and None with
\* it; the setter of Tfd500.time replaces None by now(), formats the datetime
\* and calls xfer("T", 0, value).
SetClock ==
    /\ pc = "idle"
    /\ op' = "set_clock"
    /\ pc' = "clock"
    /\ \E given \in BOOLEAN, now \in NowValues :
         \E value \in IF given THEN ClockValues ELSE {<<>>} :
            LET stamp == IF ~given THEN <<now>> ELSE <<>>
                chosen == IF stamp # <<>> THEN stamp[1] ELSE now
            IN  /\ cli' = [NoCli EXCEPT !.given = given, !.value = value,
                                        !.now = now]
                /\ Call(<<"T">>, 0, Strftime(chosen), FALSE)
    /\ UNCHANGED <<dev, open, wire, exch, err, arg, cf, config, it, last>>

\* return result == "0"
IsIdle(result) == result = <<"0">>

\* cmd_dump(logger, args) begins with logger.is_busy(): xfer("a", 1).
DumpStart ==
    /\ pc = "idle"
    /\ op' = "dump"
    /\ pc' = "dump_a"
    /\ Call(<<"a">>, 1, <<>>, FALSE)
    /\ UNCHANGED <<dev, open, wire, exch, err, arg, cf, config, it, last, cli>>

\* is_busy() has its answer: a busy logger ends the command with 1, an idle
\* one is asked for its configuration.
DumpGotStatus ==
    /\ op = "dump" /\ pc = "dump_a" /\ xpc = "returned"
    /\ IF ~IsIdle(x.result)
       THEN /\ cli' = [cli EXCEPT !.status = "busy", !.reply = x.result,
                                  !.rc = 1]
            /\ pc' = "exit"
            /\ xpc' = "off"
            /\ UNCHANGED <<x, xlog>>
       ELSE /\ cli' = [cli EXCEPT !.status = "idle", !.reply = x.result]
            /\ pc' = "dump_d"
            /\ Call(<<"d">>, TextSize, <<>>, FALSE)
    /\ UNCHANGED <<dev, open, wire, exch, op, err, arg, cf, config, it, last>>

\* configuration(), called by cmd_dump, after xfer('d', 24) has returned.
DumpGotD ==
    /\ op = "dump" /\ pc = "dump_d" /\ xpc = "returned"
    /\ IF CanUnpackD(x.result)
       THEN LET f == Split(x.result) IN
            /\ cf' = [count |-> f[1], start |-> Join(f[2], f[3])]
            /\ pc' = "dump_o"
            /\ Call(<<"o">>, TextSize, <<>>, FALSE)
            /\ UNCHANGED err
       ELSE /\ Raise("ValueError")
            /\ xpc' = "off"
            /\ UNCHANGED <<cf, x, xlog>>
    /\ UNCHANGED <<dev, open, wire, exch, arg, config, it>>
    /\ UNCHANGED <<op, last, cli>>

\* A test that no dictionary passes.
DumpEmptyBelowZero(count) == count < 0

\* if config["count"] == 0
DumpEmpty(count) == count = 0

\* _open_output(args, config): standard output, a file that is created or
\* truncated, or a file that exists while --force is not given.
Targets == {"stdout", "file", "exists"}

\* cmd_dump after its configuration() has returned: nothing to dump ends the
\* command with 0; otherwise the output is opened (sys.exit(1) when the file
\* exists) and the for loop enters __iter__, which begins with
\* configuration() again.
DumpGotO ==
    /\ op = "dump" /\ pc = "dump_o" /\ xpc = "returned"
    /\ IF CanUnpackO(x.result)
       THEN LET f == Split(x.result)
                e == ConfigError(cf.count, cf.start, f[1], f[2])
                c == ConfigOf(cf.count, cf.start, f[1], f[2])
            IN  IF e # "none"
                THEN /\ Raise(e)
                     /\ xpc' = "off"
                     /\ UNCHANGED <<cli, x, xlog>>
                ELSE IF DumpEmpty(c.count)
                THEN /\ cli' = [cli EXCEPT !.config = c, !.rc = 0]
                     /\ pc' = "exit"
                     /\ xpc' = "off"
                     /\ UNCHANGED <<err, x, xlog>>
                ELSE \E target \in Targets :
                       IF target = "exists"
                       THEN /\ cli' = [cli EXCEPT !.config = c, !.rc = 1]
                            /\ pc' = "exit"
                            /\ xpc' = "off"
                            /\ UNCHANGED <<err, x, xlog>>
                       ELSE /\ cli' = [cli EXCEPT !.config = c,
                                                  !.output = target]
                            /\ pc' = "cfg_d"
                            /\ Call(<<"d">>, TextSize, <<>>, FALSE)
                            /\ UNCHANGED err
       ELSE /\ Raise("ValueError")
            /\ xpc' = "off"
            /\ UNCHANGED <<cli, x, xlog>>
    /\ UNCHANGED <<dev, open, wire, exch, op, arg, cf, config, it, last>>

\* stamp, temp, hum = value
CanUnpackValue(value) == Len(value) = 3

\* What print(record, file=output) is given: the counter, the sample, and
\* the humidity only when the dictionary of cmd_dump has the humidity flag.
Written(counter, value, humidity) ==
    [number |-> counter, stamp |-> value[1], temp |-> value[2],
     hum |-> IF humidity THEN <<value[3]>> ELSE <<>>]

RECURSIVE DumpLoop(_, _, _, _)
\* for value in values: the inner loop of cmd_dump from the i-th sample of
\* the batch on; st holds the counter, the records written for this batch and
\* whether every sample so far could be unpacked.
DumpLoop(values, i, st, humidity) ==
    IF i > Len(values) \/ ~st.ok THEN st
    ELSE IF CanUnpackValue(values[i])
    THEN DumpLoop(values, i + 1,
                  [counter |-> st.counter + 1,
                   records |-> Append(st.records,
                                      Written(st.counter, values[i], humidity)),
                   ok      |-> TRUE],
                  humidity)
    ELSE [st EXCEPT !.ok = FALSE]

\* The stream has yielded a batch: cmd_dump writes its samples and asks for
\* the next batch.
DumpBatch ==
    /\ op = "dump" /\ pc = "yield"
    /\ it.block <= MaxBlock
    /\ LET st == DumpLoop(it.data, 1,
                          [counter |-> cli.counter, records |-> <<>>,
                           ok |-> TRUE],
                          cli.config.humidity)
       IN  /\ cli' = [cli EXCEPT !.counter = st.counter,
                                 !.records = st.records]
           /\ IF st.ok
              THEN /\ pc' = "loop"
                   /\ UNCHANGED err
              ELSE Raise("ValueError")
    /\ UNCHANGED <<dev, open, wire, exch, op, arg, cf, config, it, xpc, x,
                   xlog, last>>

\* The stream has ended: return 0.
DumpEnd ==
    /\ op = "dump" /\ pc = "done"
    /\ pc' = "exit"
    /\ cli' = [cli EXCEPT !.rc = 0]
    /\ UNCHANGED <<dev, open, wire, exch, op, err, arg, cf, config, it, xpc,
                   x, xlog, last>>

\* The command has returned to the shell.
CliReturn ==
    /\ \/ pc = "clock" /\ xpc = "returned"
       \/ pc = "exit"
    /\ Reset
    /\ UNCHANGED <<dev, open, last>>

\* The loggers the commands are run against: empty, one short block, more
\* than one block of humidity samples; both modes.
CliDevStates ==
    {d \in DevStates : /\ d.count \in {0, 2, 86}
                       /\ d.start \in StartTexts
                       /\ d.ival = 1 /\ d.seed = 1}

InitCli == dev \in CliDevStates /\ InitDriver

NextCli ==
    \/ XferOpen \/ XferWriteCmd \/ XferWriteParams \/ XferReadEcho
    \/ XferAssert \/ XferReadPayload \/ XferClose \/ XferReturn \/ XferIOError
    \/ CfgGotD \/ CfgGotO \/ IterLoop \/ IterDecode
    \/ SetClock \/ DumpStart \/ DumpGotStatus \/ DumpGotD \/ DumpGotO
    \/ DumpBatch \/ DumpEnd \/ CliReturn \/ Recover

SpecCli == InitCli /\ [][NextCli]_vars

(* ------------------------------ properties ------------------------------ *)

\* Number of occurrences of e in the sequence s.
Occurrences(s, e) == Cardinality({i \in 1..Len(s) : s[i] = e})

\* The connection the current call of xfer opened is still open.
CallHoldsConnection == Occurrences(xlog, "open") > Occurrences(xlog, "close")

\* Control has left the current call of xfer, by return or by exception.
CallLeft == xpc \in {"returned", "raised"}

\* C1: when control has left a call of xfer, on whatever path, the
\* connection the call opened is closed.
C1_ClosedOnEveryExit == CallLeft => ~CallHoldsConnection

\* C2: an echo that differs from the command byte (also no byte at all) ends
\* the call with the assertion failure: nothing is returned, no payload is
\* read, the command is written once; and the call gets past the check only
\* with an echo equal to the command byte.
C2_FramingFailure ==
    /\ xpc \in {"checked", "got", "closed", "returned"}
         => x.response = Encode(x.cmd)
    /\ (Occurrences(xlog, "validate") > 0 /\ x.response # Encode(x.cmd))
         => /\ xpc = "raised" /\ pc = "failed" /\ err = "AssertionError"
            /\ x.result = <<>>
            /\ Occurrences(xlog, "read_payload") = 0
            /\ Occurrences(xlog, "write_cmd") = 1

C2_Witness ==
    /\ xpc = "raised" /\ err = "AssertionError"
    /\ x.cmd = <<"F">> /\ x.response = <<>>
    /\ Occurrences(xlog, "validate") = 1

\* C3: the interval setter with a value outside {10, 60, 300} ends with a
\* ValueError, no connection opened and no byte written; with a value of the
\* set it makes one 'I' exchange whose parameter is "0", "1", "2" for 10,
\* 60, 300.
C3_IntervalSetter ==
    op = "interval" =>
        IF arg \notin {10, 60, 300}
        THEN /\ pc = "failed" /\ err = "ValueError"
             /\ wire = <<>> /\ exch = <<>> /\ xpc = "off" /\ xlog = <<>>
        ELSE LET code == IF arg = 10 THEN "0" ELSE IF arg = 60 THEN "1" ELSE "2" IN
             /\ x.cmd = <<"I">> /\ x.parameters = <<code>> /\ x.expected = 0
             /\ exch = IF xpc = "call" THEN <<>> ELSE << <<"I">> >>
             /\ xpc \in {"sent", "echoed", "checked", "got", "closed", "returned"}
                  => wire = <<73, Ascii[code]>>
             /\ Len(wire) <= 2

C3_Witness ==
    /\ op = "interval" /\ arg = 30
    /\ pc = "failed" /\ err = "ValueError" /\ wire = <<>> /\ exch = <<>>

Min(a, b) == IF a <= b THEN a ELSE b

\* A batch has been yielded, or the stream has ended.
Yielded == op = "iter" /\ pc = "yield"

Ended == op = "iter" /\ pc = "done"

\* C4: temperature-only mode, blocks of 256 bytes, count N: the k-th batch
\* has min(128, N - 128(k-1)) samples, taken from the front of its block,
\* and the stream ends after ceil(N/128) batches with N samples emitted.
C4_TempBatches ==
    LET N == config.count IN
    /\ (Yielded /\ ~config.humidity) =>
          /\ Len(x.result) = 256
          /\ Len(it.data) = Min(128, N - 128 * (it.block - 1))
          /\ Len(it.data) > 0
          /\ it.count = Min(N, 128 * it.block)
          /\ \A i \in 1..Len(it.data) :
               it.data[i][2] = S16(x.result[2 * i - 1], x.result[2 * i])
    /\ (Ended /\ ~config.humidity) =>
          /\ it.block = (N + 127) \div 128
          /\ it.count = N

C4_Witness ==
    /\ Ended /\ ~config.humidity /\ config.count = 130
    /\ it.block = 2 /\ Len(it.data) = 2 /\ it.count = 130

\* Number of read-block commands the pass has issued.
NumF == Occurrences(exch, <<"F">>)

\* C5: a block is asked for only while fewer than count samples have been
\* emitted; with count = 0 no block is asked for and no batch is yielded.
C5_ReadOnlyWhileShort ==
    /\ (op = "iter" /\ pc = "block") => it.count < config.count
    /\ (op = "iter" /\ pc \in {"loop", "block", "yield", "done"}) =>
          /\ NumF = it.block + (IF pc = "block" /\ xpc # "call" THEN 1 ELSE 0)
          /\ it.count <= config.count
          /\ config.count = 0 => NumF = 0 /\ it.block = 0 /\ pc \in {"loop", "done"}
    /\ (op = "iter" /\ pc = "failed" /\ x.cmd = <<"F">>) => it.count < config.count

C5_Witness ==
    /\ Ended /\ config.humidity /\ config.count = 86
    /\ it.count = 86 /\ NumF = 2

\* C6: the timestamp of the k-th sample of the pass is start + k * interval.
C6_Timestamps ==
    Yielded =>
        LET before == it.count - Len(it.data) IN
        /\ config.interval \in {10, 60, 300}
        /\ \A i \in 1..Len(it.data) :
             it.data[i][1] = config.start + (before + i - 1) * config.interval
        /\ it.timestamp = config.start + it.count * config.interval
        /\ ~config.humidity => before = 128 * (it.block - 1)

C6_Witness ==
    /\ Yielded /\ config.humidity /\ config.interval = 300
    /\ it.block = 2 /\ it.count = 86 /\ Len(it.data) = 1
    /\ it.data[1][1] = config.start + 85 * 300

\* C7: in humidity mode a block of L bytes gives min(floor(L/3), remaining)
\* samples, each from one complete 3 byte group: 85 from a block of 256
\* bytes when 85 or more remain.
C7_HumidityGroups ==
    (Yielded /\ config.humidity) =>
        LET L == Len(x.result)
            remaining == config.count - (it.count - Len(it.data))
        IN  /\ Len(it.data) <= L \div 3
            /\ Len(it.data) = Min(L \div 3, remaining)
            /\ L = 256 => Len(it.data) = Min(85, remaining)
            /\ \A i \in 1..Len(it.data) :
                 /\ it.data[i][2] = S16(x.result[3 * i - 2], x.result[3 * i - 1])
                 /\ it.data[i][3] = S8(x.result[3 * i])

C7_Witness ==
    /\ Yielded /\ config.humidity /\ Len(x.result) = 256
    /\ Len(it.data) = 85 /\ it.count < config.count

\* C8: a call of xfer with an integer expected that returns, returns exactly
\* expected bytes.
C8_ExactLength == xpc = "returned" => Len(x.result) = x.expected

\* The recording start of the modelled loggers as a datetime.
StartOf(d) == IF d.start[1] = "2" THEN 1437392696 ELSE 946684770

\* C9: a pass makes one 'd' and one 'o' exchange, before its first 'F' and
\* never again, and works with the configuration the logger has in this
\* pass, whatever the previous pass worked with.
C9_ConfigPerPass ==
    op = "iter" =>
        /\ \A i \in 1..Len(exch) :
             exch[i] = IF i = 1 THEN <<"d">> ELSE IF i = 2 THEN <<"o">> ELSE <<"F">>
        /\ pc = "cfg_d" => Len(exch) <= 1
        /\ pc = "cfg_o" => Len(exch) \in {1, 2}
        /\ pc \in {"loop", "block", "yield", "done"} =>
             /\ Len(exch) >= 2
             /\ config = [count    |-> dev.count,
                          start    |-> StartOf(dev),
                          humidity |-> (dev.mode = 1),
                          interval |-> <<10, 60, 300>>[dev.ival + 1]]
             /\ it.number_of_points = dev.count
             /\ it.has_humidity = (dev.mode = 1)
             /\ it.delta = <<10, 60, 300>>[dev.ival + 1]
             /\ it.timestamp = StartOf(dev) + it.count * it.delta

C9_Witness ==
    /\ op = "iter" /\ pc = "yield" /\ last # NoConfig
    /\ last.count # config.count /\ last.start # config.start
    /\ last.humidity # config.humidity /\ last.interval # config.interval

IsPrefix(s, t) == Len(s) <= Len(t) /\ \A i \in 1..Len(s) : s[i] = t[i]

\* C10: an exchange opens, writes the command, writes the parameters if
\* there are any, reads the echo, checks it, reads the payload and closes,
\* in this order; the payload is read only after an echo equal to the
\* command byte.
C10_ExchangeOrder ==
    /\ IsPrefix(xlog,
                IF x.parameters = <<>>
                THEN <<"open", "write_cmd", "read_echo", "validate",
                       "read_payload", "close">>
                ELSE <<"open", "write_cmd", "write_params", "read_echo",
                       "validate", "read_payload", "close">>)
    /\ Occurrences(xlog, "read_payload") > 0 => x.response = Encode(x.cmd)
    /\ xpc = "returned" => xlog[Len(xlog)] = "close"
    /\ open >= (IF CallHoldsConnection THEN 1 ELSE 0)

C10_Witness ==
    /\ xpc = "returned" /\ x.cmd = <<"F">>
    /\ xlog = <<"open", "write_cmd", "write_params", "read_echo", "validate",
                "read_payload", "close">>

\* __iter__ has its configuration.
ConfigFetched == op = "iter" /\ pc \in {"loop", "block", "yield", "done"}

\* The logger of the example: "d000010 20.07.15 11:44:56" and
\* "oC1 I2 T20.07.15 12:34:56".
ExampleDev(d) ==
    /\ d.count = 10 /\ d.mode = 1 /\ d.ival = 2
    /\ d.start = <<"2", "0", ".", "0", "7", ".", "1", "5", " ",
                   "1", "1", ":", "4", "4", ":", "5", "6">>

\* C11: configuration() returns the count of the 'd' reply, its date and
\* time, humidity true exactly for a nonzero mode digit and interval 10, 60,
\* 300 for the codes 0, 1, 2; the example replies give count 10, start
\* 2015-07-20 11:44:56, humidity true, interval 300.
C11_ConfigDecode ==
    ConfigFetched =>
        /\ config.interval \in {10, 60, 300}
        /\ config.count = dev.count
        /\ config.start = StartOf(dev)
        /\ config.humidity <=> dev.mode # 0
        /\ config.interval =
             (IF dev.ival = 0 THEN 10 ELSE IF dev.ival = 1 THEN 60 ELSE 300)
        /\ ExampleDev(dev) =>
             config = [count |-> 10, start |-> 1437392696,
                       humidity |-> TRUE, interval |-> 300]

C11_Witness ==
    /\ ConfigFetched /\ ExampleDev(dev)
    /\ config = [count |-> 10, start |-> 1437392696,
                 humidity |-> TRUE, interval |-> 300]

\* Number of blank-separated fields of a text, counted as the starts of its
\* runs of non-blank characters.
FieldCount(s) ==
    Cardinality({i \in 1..Len(s) : s[i] # " " /\ (i = 1 \/ s[i - 1] = " ")})

\* C12: a 'd' reply without exactly three fields, or an 'o' reply without
\* exactly four, ends configuration() with a ValueError: no dictionary is
\* built, and a stream pass ends before it asks for a block.
C12_ParseError ==
    [][/\ (pc = "cfg_d" /\ xpc = "returned" /\ FieldCount(x.result) # 3) =>
            /\ pc' = "failed" /\ err' = "ValueError"
            /\ config' = NoConfig /\ it' = NoIt
            /\ exch' = exch /\ Occurrences(exch', <<"F">>) = 0
       /\ (pc = "cfg_o" /\ xpc = "returned" /\ FieldCount(x.result) # 4) =>
            /\ pc' = "failed" /\ err' = "ValueError"
            /\ config' = NoConfig /\ it' = NoIt
            /\ exch' = exch /\ Occurrences(exch', <<"F">>) = 0
      ]_vars

C12_Witness ==
    /\ op = "iter" /\ pc = "failed" /\ err = "ValueError"
    /\ x.cmd = <<"d">> /\ xpc = "off" /\ FieldCount(x.result) = 4
    /\ config = NoConfig /\ exch = << <<"d">> >>

\* C14: a stream pass ends after finitely many block requests, whatever the
\* lengths of the block replies: as long as samples remain, a block that is
\* asked for and decoded adds at least one sample, so that a pass never goes
\* on asking for blocks while it yields empty batches.
C14_EveryBlockAdvances ==
    (Yielded /\ it.count < config.count) => Len(it.data) > 0

\* C15: in temperature-only mode a block reply of fewer than 256 bytes is
\* decoded without an error: the batch holds its complete 16 bit values, up
\* to the remaining count, and the pass goes on.
C15_ShortTempBlock ==
    (/\ op = "iter" /\ pc \in {"yield", "failed"}
     /\ x.cmd = <<"F">> /\ xpc = "off"
     /\ ~it.has_humidity /\ Len(x.result) < 256) =>
        /\ pc = "yield"
        /\ Len(it.data) = Min(Len(x.result) \div 2,
                              config.count - (it.count - Len(it.data)))

\* C17: never more than one connection is open, none is open while the
\* stream is suspended after a batch, and a pass opens one connection per
\* exchange: two for the configuration and one per block.
C17_OneConnection ==
    /\ open <= 1
    /\ Yielded => open = 0
    /\ ConfigFetched => Len(exch) = 2 + NumF

\* C16: the 'F' commands of a pass carry the block indices 0, 1, 2, ... in
\* order, each once, as exactly four decimal digits.
C16_BlockParameters ==
    (op = "iter" /\ x.cmd = <<"F">>) =>
        /\ Len(x.parameters) = 4
        /\ IsInt(x.parameters)
        /\ IntOf(x.parameters) =
             (IF pc \in {"block", "failed"} THEN it.block ELSE it.block - 1)

\* C13: set-clock with --value sets the logger's clock to the given value,
\* and without --value to the current date and time; either way exactly one
\* 'T' exchange is made.
C13_SetClock ==
    op = "set_clock" /\ xpc # "off" =>
        /\ x.cmd = <<"T">>
        /\ x.parameters = (IF cli.given THEN cli.value ELSE Strftime(cli.now))
        /\ IsPrefix(exch, << <<"T">> >>)
        /\ (xpc = "returned" => exch = << <<"T">> >>)

\* The batch the stream yielded last has been taken by cmd_dump, and the
\* logger had answered the exchange for its block in full.
DumpTookBatch ==
    /\ op = "dump" /\ pc \in {"loop", "failed"}
    /\ x.cmd = <<"F">> /\ xpc = "off" /\ Len(x.result) = BlockSize

\* C18: for an idle logger with N > 0 points cmd_dump writes one record per
\* sample the stream yields, numbered from 0 in stream order, N in all, and
\* returns 0, in temperature-only and in temperature+humidity mode.
C18_DumpWritesAll ==
    /\ DumpTookBatch =>
          /\ pc = "loop"
          /\ cli.counter = it.count
          /\ Len(cli.records) = Len(it.data)
          /\ \A i \in 1..Len(it.data) :
                /\ cli.records[i].number = it.count - Len(it.data) + i - 1
                /\ cli.records[i].stamp = it.data[i][1]
                /\ cli.records[i].temp = it.data[i][2]
    /\ (op = "dump" /\ pc = "exit" /\ cli.output # "none") =>
          /\ cli.rc = 0
          /\ cli.counter = cli.config.count

\* C19: a logger that reports busy ends cmd_dump with 1 after the single 'a'
\* exchange; an idle logger with no points ends it with 0 after 'a', 'd'
\* and 'o', without an 'F' exchange; in both cases no output is opened.
C19_DumpStopsEarly ==
    op = "dump" =>
        /\ cli.status = "busy" =>
              /\ cli.reply # <<"0">>
              /\ pc = "exit" /\ cli.rc = 1
              /\ exch = << <<"a">> >>
              /\ cli.output = "none"
        /\ Len(exch) > 1 => cli.status = "idle" /\ cli.reply = <<"0">>
        /\ (cli.config # NoConfig /\ cli.config.count = 0) =>
              /\ pc = "exit" /\ cli.rc = 0
              /\ exch = << <<"a">>, <<"d">>, <<"o">> >>
              /\ NumF = 0
              /\ cli.output = "none"
        /\ cli.output # "none" => cli.config.count > 0

\* A dump of an idle logger without points has ended.
C19_Witness ==
    /\ op = "dump" /\ pc = "exit"
    /\ cli.status = "idle" /\ cli.config # NoConfig /\ cli.config.count = 0
    /\ dev.count = 0 /\ cli.rc = 0

=============================================================================
